---- MODULE Spec2Model ----
(***************************************************************************)
(* State-machine model of the REST handlers of seq2seq/serve_seq2seq.py:   *)
(* /ask, /database, /schema/{db_id} (GET, POST, PATCH) and                 *)
(* /serialized-schema/{db_id}.  The handlers are plain `def` endpoints, so *)
(* FastAPI runs each request on a worker thread; a thread of the model is  *)
(* one such worker and a step is one call of the handler that touches the  *)
(* file system, an sqlite3 connection or the schema cache.                 *)
(*                                                                         *)
(* A file or directory name is a sequence of its dot-separated parts       *)
(* ("x.bak.sqlite" is <<"x","bak","sqlite">>), a path is a sequence of     *)
(* names below the database root, and the content of a database file is a  *)
(* function from its tables to their row counts.                           *)
(***************************************************************************)
EXTENDS Naturals, Integers, Sequences, FiniteSets, TLC

VARIABLES
    files,           \* path -> content, for every database file on disk
    dirs,            \* the directories below the root
    schema_cache,    \* db_id -> schema, the pipeline's cache
    building,        \* db_ids whose cache entry is being built
    introspections,  \* db_id -> number of get_schema() calls so far
    th,              \* thread -> the locals of the request it runs
    created,         \* history: db_ids whose POST /schema returned a schema
    nreq             \* requests started so far

vars == <<files, dirs, schema_cache, building, introspections, th, created, nreq>>

(***************************************************************************)
(* Bounds of the model.                                                    *)
(***************************************************************************)
MaxRequests == 3
MaxBatchLen == 3
MaxRows == 1
MaxCandidates == 2

Threads == {"t1", "t2"}

X == <<"x">>
Y == <<"y">>
XBak == <<"x", "bak">>

(***************************************************************************)
(* Names and paths (pathlib).                                              *)
(***************************************************************************)
RootName == <<"database">>

\* Path.stem: the name without its last suffix
stem(name) == IF Len(name) > 1 THEN SubSeq(name, 1, Len(name) - 1) ELSE name

\* Path.parent.stem of a file below the root
parent_stem(path) ==
    IF Len(path) = 1 THEN stem(RootName) ELSE stem(path[Len(path) - 1])

\* "*.sqlite"
is_sqlite(name) == Len(name) > 1 /\ name[Len(name)] = "sqlite"

\* every ancestor directory of a path (mkdir(parents=True))
Ancestors(path) == {SubSeq(path, 1, k) : k \in 1..(Len(path) - 1)}

\* pipeline.get_db_file_path: <root>/<db_id>/<db_id>.sqlite
get_db_file_path(db_id) == <<db_id, db_id \o <<"sqlite">>>>

\* the path /ask builds itself
ask_db_file(db_id) == <<db_id, db_id \o <<"sqlite">>>>

(***************************************************************************)
(* The database engine (sqlite3).                                          *)
(***************************************************************************)
EmptyDb == [t \in {} |-> 0]

FileState(path) ==
    IF path \in DOMAIN files
    THEN [exists |-> TRUE, content |-> files[path]]
    ELSE [exists |-> FALSE, content |-> EmptyDb]

\* one statement against the content a connection sees
Execute(stmt, c) ==
    CASE stmt[1] = "CREATE" ->
           IF stmt[2] \in DOMAIN c
           THEN [ok |-> FALSE, error |-> "OperationalError",
                 detail |-> "table already exists", content |-> c, rows |-> 0]
           ELSE [ok |-> TRUE, error |-> "", detail |-> "",
                 content |-> c @@ (stmt[2] :> 0), rows |-> 0]
      [] stmt[1] = "INSERT" ->
           IF stmt[2] \in DOMAIN c
           THEN [ok |-> TRUE, error |-> "", detail |-> "",
                 content |-> [c EXCEPT ![stmt[2]] = @ + 1], rows |-> 0]
           ELSE [ok |-> FALSE, error |-> "OperationalError",
                 detail |-> "no such table", content |-> c, rows |-> 0]
      [] stmt[1] = "INSERT_KEY" ->  \* INSERT of the key 1 into a table with a unique key
           IF stmt[2] \notin DOMAIN c
           THEN [ok |-> FALSE, error |-> "OperationalError",
                 detail |-> "no such table", content |-> c, rows |-> 0]
           ELSE IF c[stmt[2]] >= 1
           THEN [ok |-> FALSE, error |-> "IntegrityError",
                 detail |-> "UNIQUE constraint failed", content |-> c, rows |-> 0]
           ELSE [ok |-> TRUE, error |-> "", detail |-> "",
                 content |-> [c EXCEPT ![stmt[2]] = 1], rows |-> 0]
      [] OTHER ->  \* SELECT
           IF stmt[2] \in DOMAIN c
           THEN [ok |-> TRUE, error |-> "", detail |-> "",
                 content |-> c, rows |-> c[stmt[2]]]
           ELSE [ok |-> FALSE, error |-> "OperationalError",
                 detail |-> "no such table", content |-> c, rows |-> 0]

\* sqlite3 opens a transaction implicitly before INSERT/UPDATE/DELETE/REPLACE
\* only; any other statement outside a transaction is committed at once
opens_transaction(stmt) == stmt[1] \in {"INSERT", "INSERT_KEY"}

\* another connection holds the write lock of the file
Locked(t, path) ==
    \E u \in Threads \ {t} :
        th[u].conn = "open" /\ th[u].txn /\ th[u].path = path

\* introspection of a database file: its tables
dump_schema(content) == DOMAIN content

\* pipeline.get_schema(db_path, db_id): a fresh introspection of the file
get_schema(db_id) == dump_schema(files[get_db_file_path(db_id)])

(***************************************************************************)
(* Requests.                                                               *)
(***************************************************************************)
SeqsUpTo(S, n) == UNION {[1..k -> S] : k \in 0..n}

DDLStatements == {<<"CREATE", "a">>, <<"CREATE", "b">>, <<"INSERT", "a">>}
Batches == SeqsUpTo(DDLStatements, MaxBatchLen)

Inserts(queries) == Cardinality({k \in 1..Len(queries) : queries[k][1] = "INSERT"})

RowsOf(path) ==
    IF path \in DOMAIN files /\ "a" \in DOMAIN files[path]
    THEN files[path]["a"] ELSE 0

Request(op, db_id, queries) == [op |-> op, db |-> db_id, queries |-> queries]

Idle ==
    [pc |-> "idle", op |-> "none", db |-> <<>>, queries |-> <<>>, i |-> 0,
     path |-> <<>>, conn |-> "unbound", txn |-> FALSE, work |-> EmptyDb,
     pre |-> [exists |-> FALSE, content |-> EmptyDb], applied |-> 0,
     code |-> 0, error |-> "", detail |-> "", schema |-> {}, outcomes |-> <<>>,
     ids |-> {}, raised_in_release |-> FALSE, partial |-> FALSE,
     randomized |-> FALSE, with_db_id |-> TRUE, text |-> <<>>]

\* ask opening its connection before the question is put to the pipeline
FirstPc_connect_first(op) ==
    CASE op \in {"create", "update"} -> "check"
      [] op = "ask" -> "a_connect"
      [] op = "ask_with_schema" -> "generate"
      [] op = "serialized" -> "resolve"
      [] op = "schema" -> "get_schema"
      [] OTHER -> "list"

FirstPc(op) ==
    CASE op \in {"create", "update"} -> "check"
      [] op = "ask" -> "resolve"
      [] op = "ask_with_schema" -> "generate"
      [] op = "serialized" -> "resolve"
      [] op = "schema" -> "get_schema"
      [] OTHER -> "list"

\* a worker thread picks up a request
Begin(t, r) ==
    /\ th[t].pc \in {"idle", "done"}
    /\ nreq < MaxRequests
    /\ RowsOf(get_db_file_path(r.db)) + Inserts(r.queries) <= MaxRows
    /\ nreq' = nreq + 1
    /\ th' = [th EXCEPT ![t] =
                [Idle EXCEPT !.pc = FirstPc(r.op), !.op = r.op, !.db = r.db,
                             !.queries = r.queries, !.i = 1,
                             !.path = get_db_file_path(r.db),
                             !.pre = FileState(get_db_file_path(r.db))]]
    /\ UNCHANGED <<files, dirs, schema_cache, building, introspections, created>>

Finish(t, code, error, detail) ==
    [th[t] EXCEPT !.pc = "done", !.code = code, !.error = error, !.detail = detail]

(***************************************************************************)
(* POST /schema/{db_id} and PATCH /schema/{db_id}.                         *)
(***************************************************************************)
\* create_schema without its existence check
CreateCheck_no_guard(t) ==
    /\ th[t].pc = "check" /\ th[t].op = "create"
    /\ th' = [th EXCEPT ![t] = [th[t] EXCEPT !.pc = "connect"]]
    /\ UNCHANGED <<files, dirs, schema_cache, building, introspections, created, nreq>>

\* update_schema without its existence check
UpdateCheck_no_guard(t) ==
    /\ th[t].pc = "check" /\ th[t].op = "update"
    /\ th' = [th EXCEPT ![t] = [th[t] EXCEPT !.pc = "connect"]]
    /\ UNCHANGED <<files, dirs, schema_cache, building, introspections, created, nreq>>

\* create_schema: if db_file_path.exists(): raise 409
CreateCheck(t) ==
    /\ th[t].pc = "check" /\ th[t].op = "create"
    /\ th' = [th EXCEPT ![t] =
                IF th[t].path \in DOMAIN files
                THEN Finish(t, 409, "HTTPException", "database already exists")
                ELSE [th[t] EXCEPT !.pc = "connect"]]
    /\ UNCHANGED <<files, dirs, schema_cache, building, introspections, created, nreq>>

\* update_schema: if not db_file_path.exists(): raise 404
UpdateCheck(t) ==
    /\ th[t].pc = "check" /\ th[t].op = "update"
    /\ th' = [th EXCEPT ![t] =
                IF th[t].path \notin DOMAIN files
                THEN Finish(t, 404, "HTTPException", "database not found")
                ELSE [th[t] EXCEPT !.pc = "connect"]]
    /\ UNCHANGED <<files, dirs, schema_cache, building, introspections, created, nreq>>

\* sqlite3.connect(path) creates the file when it is missing
connect(path) == IF path \in DOMAIN files THEN files ELSE files @@ (path :> EmptyDb)

\* create_schema: mkdir(parents=True, exist_ok=True); con = sqlite3.connect(...)
\* update_schema: con = sqlite3.connect(...)
\* connect is outside the try: when it cannot open the file the
\* OperationalError leaves the handler unhandled (500)
Connect(t) ==
    /\ th[t].pc = "connect"
    /\ dirs' = IF th[t].op = "create" THEN dirs \cup Ancestors(th[t].path) ELSE dirs
    /\ \E opened \in BOOLEAN :
         IF opened
         THEN /\ files' = connect(th[t].path)
              /\ th' = [th EXCEPT ![t] = [th[t] EXCEPT !.pc = "exec", !.conn = "open"]]
         ELSE /\ files' = files
              /\ th' = [th EXCEPT ![t] =
                          Finish(t, 500, "OperationalError", "unable to open database file")]
    /\ UNCHANGED <<schema_cache, building, introspections, created, nreq>>

\* the except clause of create_schema and update_schema catches
\* sqlite3.OperationalError alone; any other error of the engine leaves the
\* handler as it is and the server answers 500
status_of(error) == IF error = "OperationalError" THEN 400 ELSE 500

\* for query in queries: cur.execute(query)
\*   except OperationalError: raise 400;  finally: con.close()
Exec(t) ==
    /\ th[t].pc = "exec"
    /\ th[t].i <= Len(th[t].queries)
    /\ LET stmt == th[t].queries[th[t].i]
           path == th[t].path
           in_txn == th[t].txn \/ opens_transaction(stmt)
           seen == IF th[t].txn THEN th[t].work ELSE files[path]
           r == IF Locked(t, path)
                THEN [ok |-> FALSE, error |-> "OperationalError",
                      detail |-> "database is locked", content |-> seen, rows |-> 0]
                ELSE Execute(stmt, seen)
       IN  IF r.ok
           THEN /\ files' = IF in_txn THEN files ELSE [files EXCEPT ![path] = r.content]
                /\ th' = [th EXCEPT ![t] =
                            [th[t] EXCEPT !.i = @ + 1, !.applied = @ + 1,
                                          !.txn = in_txn,
                                          !.work = IF in_txn THEN r.content ELSE @]]
           ELSE \* con.close() without commit discards the open transaction
                /\ files' = files
                /\ th' = [th EXCEPT ![t] =
                            [Finish(t, status_of(r.error), r.error, r.detail)
                                EXCEPT !.conn = "closed", !.txn = FALSE, !.work = EmptyDb]]
    /\ UNCHANGED <<dirs, schema_cache, building, introspections, created, nreq>>

\* create_schema / update_schema closing the connection without con.commit()
Commit_without_commit(t) ==
    /\ th[t].pc = "exec"
    /\ th[t].i > Len(th[t].queries)
    /\ files' = files
    /\ th' = [th EXCEPT ![t] =
                [th[t] EXCEPT !.pc = "get_schema", !.conn = "closed",
                              !.txn = FALSE, !.work = EmptyDb]]
    /\ UNCHANGED <<dirs, schema_cache, building, introspections, created, nreq>>

\* con.commit(); finally: con.close()
Commit(t) ==
    /\ th[t].pc = "exec"
    /\ th[t].i > Len(th[t].queries)
    /\ files' = IF th[t].txn THEN [files EXCEPT ![th[t].path] = th[t].work] ELSE files
    /\ th' = [th EXCEPT ![t] =
                [th[t] EXCEPT !.pc = "get_schema", !.conn = "closed",
                              !.txn = FALSE, !.work = EmptyDb]]
    /\ UNCHANGED <<dirs, schema_cache, building, introspections, created, nreq>>

\* a concurrent mutation of the same database has applied a part of its batch
\* and the tables on disk are neither those before it nor those after it
PartialRead(t) ==
    \E u \in Threads \ {t} :
        /\ th[u].op \in {"create", "update"} /\ th[u].pc = "exec"
        /\ th[u].db = th[t].db
        /\ th[u].applied < Len(th[u].queries)
        /\ get_schema(th[t].db) # dump_schema(th[u].pre.content)
        /\ get_schema(th[t].db) #
              dump_schema(th[u].pre.content) \cup
                {th[u].queries[k][2] : k \in {j \in 1..Len(th[u].queries) :
                                                th[u].queries[j][1] = "CREATE"}}

\* return get_schema(backend_args.db_path, db_id), also GET /schema/{db_id}
GetSchema(t) ==
    /\ th[t].pc = "get_schema"
    /\ IF th[t].path \in DOMAIN files
       THEN /\ th' = [th EXCEPT ![t] =
                        [Finish(t, 200, "", "") EXCEPT !.schema = get_schema(th[t].db),
                                                       !.partial = PartialRead(t)]]
            /\ introspections' = [introspections EXCEPT ![th[t].db] = @ + 1]
       ELSE /\ th' = [th EXCEPT ![t] = Finish(t, 404, "NotFoundError", "database not found")]
            /\ introspections' = introspections
    /\ created' = IF th[t].op = "create" /\ th[t].path \in DOMAIN files
                  THEN created \cup {th[t].db} ELSE created
    /\ UNCHANGED <<files, dirs, schema_cache, building, nreq>>

(***************************************************************************)
(* The schema cache: resolve(db_id), behind /ask and /serialized-schema.   *)
(***************************************************************************)
AfterResolve(op) == IF op = "ask" THEN "a_connect" ELSE "serialize"

\* pipe(...) / pipe_with_schema.get_schema_from_cache(db_id): a cached schema
\* is returned as it is; a caller that finds the entry being built waits; the
\* first caller of an uncached id builds it; an id without a database file
\* does not resolve
ResolveStart(t) ==
    /\ th[t].pc = "resolve"
    /\ th[t].db \in DOMAIN schema_cache \/ th[t].db \notin building
    /\ IF th[t].db \in DOMAIN schema_cache
       THEN /\ th' = [th EXCEPT ![t] =
                        [th[t] EXCEPT !.pc = AfterResolve(th[t].op),
                                      !.schema = schema_cache[th[t].db]]]
            /\ building' = building
       ELSE IF th[t].path \notin DOMAIN files
       THEN /\ th' = [th EXCEPT ![t] = Finish(t, 404, "NotFoundError", "database not found")]
            /\ building' = building
       ELSE /\ th' = [th EXCEPT ![t] = [th[t] EXCEPT !.pc = "introspect"]]
            /\ building' = building \cup {th[t].db}
    /\ UNCHANGED <<files, dirs, schema_cache, introspections, created, nreq>>

\* the build of a cache entry: one introspection, kept for later callers
Introspect(t) ==
    /\ th[t].pc = "introspect"
    /\ schema_cache' = schema_cache @@ (th[t].db :> get_schema(th[t].db))
    /\ building' = building \ {th[t].db}
    /\ introspections' = [introspections EXCEPT ![th[t].db] = @ + 1]
    /\ th' = [th EXCEPT ![t] =
                [th[t] EXCEPT !.pc = AfterResolve(th[t].op),
                              !.schema = get_schema(th[t].db),
                              !.partial = PartialRead(t)]]
    /\ UNCHANGED <<files, dirs, created, nreq>>

\* the orders in which the tables of a schema can be written
TableOrders(schema) ==
    {o \in [1..Cardinality(schema) -> schema] :
        \A j, k \in 1..Cardinality(schema) : j # k => o[j] # o[k]}

\* db_table_names: the tables in the order the introspection gives them
TableRank == ("a" :> 1) @@ ("b" :> 2)
db_table_names(schema) ==
    CHOOSE o \in TableOrders(schema) :
        \A j, k \in 1..Cardinality(schema) : j < k => TableRank[o[j]] < TableRank[o[k]]

\* serialize_schema: the db_id, when asked for, and then the tables
serialize_schema(db_id, order, with_db_id) ==
    (IF with_db_id THEN <<db_id>> ELSE <<>>) \o order

\* get_serialized_schema passing True for schema_serialization_randomized
\* whatever the request says
Serialize_randomized(t) ==
    /\ th[t].pc = "serialize"
    /\ \E rnd, wid \in BOOLEAN : \E order \in TableOrders(th[t].schema) :
         th' = [th EXCEPT ![t] =
                  [Finish(t, 200, "", "")
                      EXCEPT !.randomized = rnd, !.with_db_id = wid,
                             !.text = serialize_schema(th[t].db, order, wid)]]
    /\ UNCHANGED <<files, dirs, schema_cache, building, introspections, created, nreq>>

\* get_serialized_schema: serialize_schema(...) of the resolved schema under
\* the configuration of the request; a randomized serialization writes the
\* tables in any order
Serialize(t) ==
    /\ th[t].pc = "serialize"
    /\ \E rnd, wid \in BOOLEAN : \E order \in TableOrders(th[t].schema) :
         /\ rnd \/ order = db_table_names(th[t].schema)
         /\ th' = [th EXCEPT ![t] =
                     [Finish(t, 200, "", "")
                         EXCEPT !.randomized = rnd, !.with_db_id = wid,
                                !.text = serialize_schema(th[t].db, order, wid)]]
    /\ UNCHANGED <<files, dirs, schema_cache, building, introspections, created, nreq>>

(***************************************************************************)
(* GET /ask.                                                               *)
(***************************************************************************)
\* try: conn = connect(...)  ...  finally: conn.close()
\* when connect raises, conn is unbound and the finally clause raises
\* UnboundLocalError in place of the OperationalError
AskConnect(t) ==
    /\ th[t].pc = "a_connect"
    /\ \E opened \in BOOLEAN :
         IF opened
         THEN /\ files' = connect(ask_db_file(th[t].db))
              /\ th' = [th EXCEPT ![t] =
                          [th[t] EXCEPT !.pc = "a_exec", !.conn = "open",
                                        !.path = ask_db_file(th[t].db)]]
         ELSE /\ files' = files
              /\ th' = [th EXCEPT ![t] =
                          [Finish(t, 500, "UnboundLocalError", "conn")
                              EXCEPT !.raised_in_release = TRUE]]
    /\ UNCHANGED <<dirs, schema_cache, building, introspections, created, nreq>>

\* response(query, conn) for the next output of the list comprehension:
\* an OperationalError becomes HTTPException(500), which ends the
\* comprehension and the request; finally: conn.close()
AskExec(t) ==
    /\ th[t].pc = "a_exec"
    /\ th[t].i <= Len(th[t].queries)
    /\ LET stmt == th[t].queries[th[t].i]
           r == Execute(stmt, files[th[t].path])
       IN  th' = [th EXCEPT ![t] =
                    IF r.ok
                    THEN [th[t] EXCEPT !.i = @ + 1,
                                       !.outcomes = Append(@, [query |-> stmt,
                                                               rows |-> r.rows])]
                    ELSE [Finish(t, 500, "HTTPException", r.detail)
                             EXCEPT !.conn = "closed", !.outcomes = <<>>]]
    /\ UNCHANGED <<files, dirs, schema_cache, building, introspections, created, nreq>>

\* every output has its response: return the list; finally: conn.close()
AskReturn(t) ==
    /\ th[t].pc = "a_exec"
    /\ th[t].i > Len(th[t].queries)
    /\ th' = [th EXCEPT ![t] = [Finish(t, 200, "", "") EXCEPT !.conn = "closed"]]
    /\ UNCHANGED <<files, dirs, schema_cache, building, introspections, created, nreq>>

(***************************************************************************)
(* POST /ask-with-schema/.                                                 *)
(***************************************************************************)
\* ask_with_schema keeping the schema of the request in the schema cache
AskWithSchema_caches(t) ==
    /\ th[t].pc = "generate"
    /\ th' = [th EXCEPT ![t] = [Finish(t, 200, "", "") EXCEPT !.outcomes = th[t].queries]]
    /\ schema_cache' = [d \in DOMAIN schema_cache \cup {th[t].db} |-> {}]
    /\ UNCHANGED <<files, dirs, building, introspections, created, nreq>>

\* outputs = pipe_with_schema(...) with the schema of the request;
\* return [output["generated_text"] for output in outputs]
AskWithSchema(t) ==
    /\ th[t].pc = "generate"
    /\ th' = [th EXCEPT ![t] = [Finish(t, 200, "", "") EXCEPT !.outcomes = th[t].queries]]
    /\ UNCHANGED <<files, dirs, schema_cache, building, introspections, created, nreq>>

(***************************************************************************)
(* GET /database.                                                          *)
(***************************************************************************)
Last(path) == path[Len(path)]

\* [f.stem for f in db_dir.rglob("*.sqlite") if f.stem == f.parent.stem]
database_list ==
    {stem(Last(p)) : p \in {q \in DOMAIN files :
                                /\ is_sqlite(Last(q))
                                /\ stem(Last(q)) = parent_stem(q)}}

GetDatabaseList(t) ==
    /\ th[t].pc = "list"
    /\ th' = [th EXCEPT ![t] = [Finish(t, 200, "", "") EXCEPT !.ids = database_list]]
    /\ UNCHANGED <<files, dirs, schema_cache, building, introspections, created, nreq>>

(***************************************************************************)
(* Initial states and specifications.                                      *)
(***************************************************************************)
DbIds == {X, Y, XBak}

InitWith(layout) ==
    /\ files = layout
    /\ dirs = UNION {Ancestors(p) : p \in DOMAIN layout}
    /\ schema_cache = [d \in {} |-> {}]
    /\ building = {}
    /\ introspections = [d \in DbIds |-> 0]
    /\ th = [t \in Threads |-> Idle]
    /\ created = {}
    /\ nreq = 0

NoFiles == [p \in {} |-> EmptyDb]
OneDb == (get_db_file_path(X) :> ("a" :> 0))

AdminRequests ==
    {Request(op, d, q) : op \in {"create", "update"}, d \in {X}, q \in Batches}

AdminStep(t) ==
    \/ CreateCheck(t)
    \/ UpdateCheck(t)
    \/ Connect(t)
    \/ Exec(t)
    \/ Commit(t)
    \/ GetSchema(t)

InitAdmin == InitWith(NoFiles) \/ InitWith(OneDb)

NextAdmin ==
    \/ \E r \in AdminRequests : Begin("t1", r)
    \/ AdminStep("t1")

\* the schema administration requests, served one at a time
SpecAdmin == InitAdmin /\ [][NextAdmin]_vars

\* batches with an INSERT of a fixed key, which violates the key's uniqueness
\* when it is run twice
KeyStatements == {<<"CREATE", "a">>, <<"INSERT_KEY", "a">>}
KeyBatches == SeqsUpTo(KeyStatements, MaxBatchLen)

KeyRequests ==
    {Request(op, X, q) : op \in {"create", "update"}, q \in KeyBatches}

InitKey == InitWith(NoFiles) \/ InitWith(OneDb)

NextKey ==
    \/ \E r \in KeyRequests : Begin("t1", r)
    \/ AdminStep("t1")

\* schema administration requests whose statements can violate a constraint
SpecKey == InitKey /\ [][NextKey]_vars

\* the generator's outputs: num_return_sequences candidate queries
Selects == {<<"SELECT", "a">>, <<"SELECT", "b">>}
CandidateLists == SeqsUpTo(Selects, MaxCandidates) \ {<<>>}

AskDb == (get_db_file_path(X) :> ("a" :> 1))

AskRequests == {Request("ask", d, q) : d \in {X, Y}, q \in CandidateLists}

InitAsk == InitWith(AskDb)

NextAsk ==
    \/ \E r \in AskRequests : Begin("t1", r)
    \/ ResolveStart("t1")
    \/ Introspect("t1")
    \/ AskConnect("t1")
    \/ AskExec("t1")
    \/ AskReturn("t1")

\* /ask requests, served one at a time, on a database with one table
SpecAsk == InitAsk /\ [][NextAsk]_vars

InlineRequests ==
    AskRequests \cup {Request("ask_with_schema", <<>>, q) : q \in CandidateLists}

NextInline ==
    \/ \E r \in InlineRequests : Begin("t1", r)
    \/ ResolveStart("t1")
    \/ Introspect("t1")
    \/ AskConnect("t1")
    \/ AskExec("t1")
    \/ AskReturn("t1")
    \/ AskWithSchema("t1")

\* /ask and /ask-with-schema requests, served one at a time
SpecInline == InitAsk /\ [][NextInline]_vars

\* the layout of section 8 of the specification: /x/x.sqlite and /y/z.sqlite
TwoFiles ==
    (get_db_file_path(X) :> EmptyDb) @@ (<<Y, <<"z", "sqlite">>>> :> EmptyDb)

ListRequests ==
    {Request("create", d, q) : d \in DbIds, q \in SeqsUpTo({<<"CREATE", "a">>}, 1)}
        \cup {Request("list", <<>>, <<>>)}

InitList == InitWith(NoFiles) \/ InitWith(TwoFiles)

NextList ==
    \/ \E r \in ListRequests : Begin("t1", r)
    \/ CreateCheck("t1")
    \/ Connect("t1")
    \/ Exec("t1")
    \/ Commit("t1")
    \/ GetSchema("t1")
    \/ GetDatabaseList("t1")

\* creating databases and listing them, one request at a time
SpecList == InitList /\ [][NextList]_vars

\* batches of one statement, which are applied or not as a whole: what a
\* read sees after them is the effect of the updates that succeeded
CacheRequests ==
    {Request("update", X, q) : q \in SeqsUpTo(DDLStatements, 1)}
        \cup {Request("serialized", X, <<>>), Request("schema", X, <<>>)}

InitCache == InitWith(OneDb)

NextCache ==
    \/ \E r \in CacheRequests : Begin("t1", r)
    \/ UpdateCheck("t1")
    \/ Connect("t1")
    \/ Exec("t1")
    \/ Commit("t1")
    \/ GetSchema("t1")
    \/ ResolveStart("t1")
    \/ Introspect("t1")
    \/ Serialize("t1")

\* updates and schema reads of one database, one request at a time
SpecCache == InitCache /\ [][NextCache]_vars

ResolveRequests ==
    {Request(op, d, <<>>) : op \in {"schema", "serialized"}, d \in {X, Y}}

InitResolve == InitWith(OneDb)

\* a request of a burst: it arrives before any request of the burst has ended
BeginBurst(t, r) ==
    /\ \A u \in Threads : th[u].pc # "done"
    /\ Begin(t, r)

NextResolve ==
    \E t \in Threads :
        \/ \E r \in ResolveRequests : BeginBurst(t, r)
        \/ GetSchema(t)
        \/ ResolveStart(t)
        \/ Introspect(t)
        \/ Serialize(t)

\* a burst of concurrent schema reads of an unchanging database
SpecResolve == InitResolve /\ [][NextResolve]_vars

\* a worker thread picks up a request while no other request is being served
BeginAlone(t, r) ==
    /\ \A u \in Threads : th[u].pc \in {"idle", "done"}
    /\ Begin(t, r)

\* batches that succeed (with and without a transaction left to commit) and
\* batches whose first or last statement fails
ServeBatches ==
    {q \in Batches :
        q \in {<<>>, <<<<"CREATE", "a">>>>, <<<<"INSERT", "a">>>>,
               <<<<"CREATE", "a">>, <<"CREATE", "b">>>>,
               <<<<"CREATE", "b">>, <<"CREATE", "b">>>>,
               <<<<"CREATE", "a">>, <<"INSERT", "a">>, <<"CREATE", "b">>>>}}

ServeRequests ==
    {Request("create", X, q) : q \in ServeBatches}
        \cup {Request(op, X, <<>>) : op \in {"schema", "serialized"}}

InitServe == InitWith(NoFiles)

NextServe ==
    \E t \in Threads :
        \/ \E r \in ServeRequests : BeginAlone(t, r)
        \/ CreateCheck(t)
        \/ Connect(t)
        \/ Exec(t)
        \/ Commit(t)
        \/ GetSchema(t)
        \/ ResolveStart(t)
        \/ Introspect(t)
        \/ Serialize(t)

\* creates and schema reads of one database, served one at a time by two
\* worker threads, so that the answer of an earlier request is still at hand
\* when a later one ends
SpecServe == InitServe /\ [][NextServe]_vars


ConcBatches == SeqsUpTo({<<"CREATE", "a">>, <<"CREATE", "b">>}, 2)

Requests ==
    {Request(op, X, q) : op \in {"create", "update"}, q \in ConcBatches}
        \cup {Request("schema", X, <<>>), Request("serialized", X, <<>>)}

Init == InitWith(NoFiles) \/ InitWith(OneDb)

Next ==
    \E t \in Threads :
        \/ \E r \in Requests : Begin(t, r)
        \/ CreateCheck(t)
        \/ UpdateCheck(t)
        \/ Connect(t)
        \/ Exec(t)
        \/ Commit(t)
        \/ GetSchema(t)
        \/ ResolveStart(t)
        \/ Introspect(t)
        \/ Serialize(t)

\* mutations and schema reads of one database on concurrent worker threads
Spec == Init /\ [][Next]_vars

(***************************************************************************)
(* Properties of the schema administration requests (SpecAdmin).           *)
(***************************************************************************)
Ended(t, op) == th[t].pc = "done" /\ th[t].op = op

\* the tables a batch names in its CREATE statements
TablesOf(queries) ==
    {queries[k][2] : k \in {j \in 1..Len(queries) : queries[j][1] = "CREATE"}}

\* C1: an update whose batch has a failing statement ends with the DDL error
\* (400) and the schema of the database is the one before the call.
C1_UpdateRollsBack ==
    \A t \in Threads :
        Ended(t, "update") /\ th[t].conn = "closed" /\ th[t].code # 200
            => /\ th[t].code = 400
               /\ dump_schema(FileState(th[t].path).content) = dump_schema(th[t].pre.content)

\* C2: a create on a new db_id whose batch has a failing statement ends with
\* the DDL error (400) and none of the batch's tables is present afterwards.
C2_CreateAllOrNothing ==
    \A t \in Threads :
        Ended(t, "create") /\ ~th[t].pre.exists /\ th[t].conn = "closed" /\ th[t].code # 200
            => /\ th[t].code = 400
               /\ dump_schema(FileState(th[t].path).content) \cap TablesOf(th[t].queries) = {}

\* C5: a create on a db_id whose database file exists ends with 409, has
\* applied no statement and opened no connection, and the file is unchanged.
C5_CreateOnExisting ==
    \A t \in Threads :
        Ended(t, "create") /\ th[t].pre.exists
            => /\ th[t].code = 409
               /\ th[t].applied = 0
               /\ th[t].conn = "unbound"
               /\ FileState(th[t].path) = th[t].pre

\* a second create on an id this server created, with a non-empty batch
C5_Witness ==
    \E t \in Threads :
        /\ Ended(t, "create") /\ th[t].code = 409
        /\ th[t].db \in created /\ Len(th[t].queries) > 0

\* C6: an update on a db_id whose database file does not exist ends with
\* 404, has applied no statement and opened no connection, and there is
\* still no database file for the db_id.
C6_UpdateOnMissing ==
    \A t \in Threads :
        Ended(t, "update") /\ ~th[t].pre.exists
            => /\ th[t].code = 404
               /\ th[t].applied = 0
               /\ th[t].conn = "unbound"
               /\ th[t].path \notin DOMAIN files

\* an update with a non-empty batch on a missing database has ended
C6_Witness ==
    \E t \in Threads :
        /\ Ended(t, "update") /\ th[t].code = 404
        /\ ~th[t].pre.exists /\ Len(th[t].queries) > 0


\* C16: a create that ended with the DDL error (400) leaves the db_id
\* without a database: /database does not list it and there is no database
\* file, so that an update of it ends with 404 and a second create of it is
\* not refused with 409.
C16_FailedCreateLeavesNothing ==
    \A t \in Threads :
        (Ended(t, "create") /\ ~th[t].pre.exists /\ th[t].code = 400)
            => /\ th[t].path \notin DOMAIN files
               /\ th[t].db \notin database_list

\* C13: when a statement of a create or update batch fails, the request ends
\* with the DDL error (400) that carries the engine's message; it ends with
\* no other error and not with success.
C13_FailureIsDDLError ==
    \A t \in Threads :
        (th[t].pc = "done" /\ th[t].op \in {"create", "update"}
            /\ th[t].conn = "closed" /\ th[t].applied < Len(th[t].queries))
            => th[t].code = 400 /\ th[t].detail # ""

(***************************************************************************)
(* Properties of /ask (SpecAsk).                                           *)
(***************************************************************************)
\* C3: an /ask whose candidates were executed returns one outcome per
\* candidate, in candidate order; a failing candidate does not fail the call.
C3_OutcomePerCandidate ==
    \A t \in Threads :
        Ended(t, "ask") /\ th[t].conn = "closed"
            => /\ th[t].code = 200
               /\ Len(th[t].outcomes) = Len(th[t].queries)
               /\ \A k \in 1..Len(th[t].queries) :
                      th[t].outcomes[k].query = th[t].queries[k]

\* C12: an /ask on a db_id that does not resolve ends with 404 as a whole:
\* no candidate was executed, no connection was opened and there is still
\* no database file for the db_id.
C12_AskUnresolved ==
    \A t \in Threads :
        Ended(t, "ask") /\ ~th[t].pre.exists
            => /\ th[t].code = 404
               /\ th[t].outcomes = <<>>
               /\ th[t].conn = "unbound" /\ ~th[t].raised_in_release
               /\ ask_db_file(th[t].db) \notin DOMAIN files

\* an /ask with two candidates on a db_id without a database has ended
C12_Witness ==
    \E t \in Threads :
        /\ Ended(t, "ask") /\ ~th[t].pre.exists
        /\ Len(th[t].queries) = 2 /\ th[t].code = 404

\* C7: while /ask executes candidates its connection is open; once the
\* request has ended no connection is open and releasing raised no error.
C7_ConnectionScoped ==
    \A t \in Threads :
        th[t].op = "ask"
            => /\ th[t].pc = "a_exec" => th[t].conn = "open"
               /\ th[t].pc = "done" => th[t].conn # "open" /\ ~th[t].raised_in_release

SelfNamed ==
    {p[1] : p \in {q \in DOMAIN files : Len(q) = 2 /\ q[2] = q[1] \o <<"sqlite">>}}

\* C8: /database returns exactly the ids d for which <root>/<d>/<d>.sqlite
\* exists.
C8_ListsSelfNamed ==
    \A t \in Threads : Ended(t, "list") => th[t].ids = SelfNamed

\* the ids that create_schema refuses with 409 and update_schema accepts
db_file_exists == {d \in DbIds : get_db_file_path(d) \in DOMAIN files}

\* C18: the operations agree on where a database is: /database returns the
\* db_ids that create refuses as existing and update accepts, and /ask
\* connects to the file that create makes.
C18_OperationsAgree ==
    \A t \in Threads :
        Ended(t, "list")
            => /\ th[t].ids = db_file_exists
               /\ \A d \in DbIds : ask_db_file(d) = get_db_file_path(d)

(***************************************************************************)
(* Properties of the schema cache (SpecCache, SpecResolve, Spec).          *)
(***************************************************************************)
\* C4: with requests served one at a time, the schema a /serialized-schema
\* request resolved is the schema of the database as it is now, also after
\* an update.
C4_ResolveSeesUpdate ==
    \A t \in Threads :
        Ended(t, "serialized") /\ th[t].code = 200 => th[t].schema = get_schema(th[t].db)

\* C9: no schema read returns the tables of a partly applied batch of a
\* concurrent create or update of the same db_id.
C9_NoPartialSchema ==
    \A t \in Threads :
        th[t].pc = "done" /\ th[t].op \in {"schema", "serialized"} => ~th[t].partial

\* C17: of two concurrent creates of a db_id that had no database when they
\* arrived, at most one succeeds, the other ends with 409, and the database
\* holds the tables of one of the two batches.
C17_OneCreateWins ==
    \A t \in Threads : \A u \in Threads \ {t} :
        (Ended(t, "create") /\ Ended(u, "create") /\ th[t].db = th[u].db
            /\ ~th[t].pre.exists /\ ~th[u].pre.exists /\ th[t].code = 200)
            => /\ th[u].code \in {409, 500}
               /\ get_schema(th[t].db) = TablesOf(th[t].queries)

\* C10: the concurrent schema reads of a db_id (a burst of requests, none
\* ended before the last arrived) run at most one introspection of it.
C10_SingleFlight == \A d \in DbIds : introspections[d] <= 1

(***************************************************************************)
(* Properties of a created database (SpecServe).                           *)
(***************************************************************************)
\* a schema read: GET /schema/{db_id} or the resolve of /serialized-schema
IsRead(t) == th[t].pc = "done" /\ th[t].op \in {"schema", "serialized"}

\* C11: the schema a successful create returns holds exactly the tables its
\* batch defines, and so does the schema of every later read of the db_id
\* with no mutation in between.  A table stands for its CREATE statement,
\* column list included.
C11_CreatedSchemaIsBatch ==
    \A t \in Threads :
        Ended(t, "create") /\ th[t].code = 200
            => /\ th[t].schema = TablesOf(th[t].queries)
               /\ \A u \in Threads \ {t} :
                      IsRead(u) /\ th[u].db = th[t].db /\ th[u].code = 200
                          => th[u].schema = TablesOf(th[t].queries)

\* a create of two tables has succeeded and a later read has ended
C11_Witness ==
    \E t \in Threads : \E u \in Threads \ {t} :
        /\ Ended(t, "create") /\ th[t].code = 200
        /\ Cardinality(TablesOf(th[t].queries)) = 2
        /\ IsRead(u) /\ th[u].db = th[t].db /\ th[u].code = 200

====
